---- MODULE Spec2Model ----
(***************************************************************************)
(* The terminal session multiplexer of pub_term: PtyManager               *)
(* (backend/src/modules/terminal/pty-manager.ts) and the socket.io gateway *)
(* (backend/src/modules/terminal/terminal.gateway.ts).                     *)
(*                                                                         *)
(* Node runs every handler to completion on one thread, so each handler,   *)
(* timer callback and promise continuation is one atomic action.  The only *)
(* suspension point of the gateway is the `await getUserRole` of the join  *)
(* handler: a join is a request action and a later resume action.          *)
(***************************************************************************)
EXTENDS Integers, Sequences, FiniteSets, Bags, TLC

\* ------------------------------------------------------------------------
\* Bounds of the model
\* ------------------------------------------------------------------------
Conns == {"c1", "c2"}          \* socket.io connections (each one user)
Sessions == {"s1", "s2"}       \* session identifiers
MaxProcs == 2                  \* processes spawned in one run
MaxSteps == 7                  \* handlers run in one run
MaxRedeemSteps == 8            \* stretches of redeemInvite calls run in one run

Procs == 1..MaxProcs

\* ------------------------------------------------------------------------
\* Program constants
\* ------------------------------------------------------------------------
MAX_BUFFER_SIZE == 10000

NoSession == "undefined"       \* socket.sessionId === undefined
NoRole == "null"               \* getUserRole resolved to null
NoError == "none"              \* the call returned, or its promise resolved

\* output.slice(-10000) of updateOutputBuffer
MIRROR_SIZE == 10000

\* ------------------------------------------------------------------------
\* JavaScript strings.  A string is a sequence of segments; a segment is the
\* units lo..hi of one text.  Texts sent by clients and the canned texts of
\* MockPty carry their characters in txt; the data of a real pty is opaque,
\* told apart by the process p and the index k of the data event.
\* ------------------------------------------------------------------------
Literal(chars) ==
    IF chars = <<>> THEN <<>>
    ELSE << [txt |-> chars, p |-> 0, k |-> 0, lo |-> 1, hi |-> Len(chars)] >>

Opaque(p, k, n) == << [txt |-> <<>>, p |-> p, k |-> k, lo |-> 1, hi |-> n] >>

SegLen(g) == g.hi - g.lo + 1

RECURSIVE StrLen(_)
StrLen(str) ==
    IF str = <<>> THEN 0 ELSE SegLen(Head(str)) + StrLen(Tail(str))

\* str.slice(-n), n > 0: the last n units of str (all of it when shorter)
RECURSIVE SliceLast(_, _)
SliceLast(str, n) ==
    IF str = <<>> THEN <<>>
    ELSE LET g == str[Len(str)]
             front == SubSeq(str, 1, Len(str) - 1)
         IN  IF SegLen(g) >= n
             THEN << [g EXCEPT !.lo = g.hi - n + 1] >>
             ELSE SliceLast(front, n - SegLen(g)) \o << g >>

\* data.includes('\r') || data.includes('\n')
HasLineTerminator(str) ==
    \E i \in 1..Len(str) :
        \E j \in str[i].lo..str[i].hi :
            str[i].txt # <<>> /\ str[i].txt[j] \in {"\r", "\n"}

\* texts a client types
Inputs == { Literal(<<"x">>), Literal(<<"l", "s", "\n">>) }

\* lengths of the data events of a real pty
ChunkLens == {6000, 10001}

\* exit codes of a real pty
ExitCodes == {0, 1}

\* MockPty's canned texts: opaque texts told apart by k, with the lengths of
\* the source's literals (for a process.version of seven characters)
Canned(k, n) == << [txt |-> <<>>, p |-> 0, k |-> k, lo |-> 1, hi |-> n] >>

BannerTexts == << Canned(1, 58), Canned(2, 51), Canned(3, 64), Canned(4, 2) >>

ResponseText == Canned(5, 55)

VARIABLES
    ptyAvailable,   \* module-level flag set by initializePty()
    sessions,       \* PtyManager.sessions: session id -> process (0: no entry)
    procs,          \* every pty created so far, with its PtySession object
    nprocs,         \* number of ptys created so far
    sock,           \* per connection: connected, sessionId, sessionRole
    rooms,          \* socket.io rooms: session id -> set of connections
    pending,        \* bag of join handlers suspended in `await getUserRole`
    memberDB,       \* sessionMember table: connection's user -> session -> role
    userDB,         \* user table: connection's user -> global role
    stored,         \* session table: session id -> row (status, outputBuffer)
    inflight,       \* bag of session.update calls issued and not yet settled
    dbWatch,        \* whether issued session.update calls are kept in inflight
    invites,        \* inviteToken table: token -> row
    redeems,        \* bag of redeemInvite calls suspended in an await
    thrown,         \* what the last call threw or rejected with
    sent,           \* events delivered to each connection by the last handler
    calls,          \* pty adapter calls made by the last handler
    steps           \* number of handlers run so far

vars == << ptyAvailable, sessions, procs, nprocs, sock, rooms, pending,
          memberDB, userDB, stored, inflight, dbWatch, invites, redeems,
          thrown, sent, calls, steps >>

\* ------------------------------------------------------------------------
\* Records
\* ------------------------------------------------------------------------
NoProc == [sid |-> "-", st |-> "unborn", outputBuffer |-> <<>>,
           produced |-> <<>>, banner |-> FALSE, resp |-> 0,
           killed |-> FALSE]

Quiet == [c \in Conns |-> <<>>]

OutputEv(data) == [ev |-> "session:output", data |-> data]
JoinedEv(s, role) == [ev |-> "session:joined", sessionId |-> s, role |-> role]
ErrorEv(msg) == [ev |-> "error", message |-> msg]
ExitEv(code) == [ev |-> "session:exit", exitCode |-> code]

\* the concatenated payloads of the output events among evs
RECURSIVE OutputsOf(_)
OutputsOf(evs) ==
    IF evs = <<>> THEN <<>>
    ELSE (IF Head(evs).ev = "session:output" THEN Head(evs).data ELSE <<>>)
         \o OutputsOf(Tail(evs))

\* ------------------------------------------------------------------------
\* Initial state
\* ------------------------------------------------------------------------
InitMembers ==
    [c \in Conns |->
        IF c = "c1" THEN [s \in Sessions |-> IF s = "s1" THEN "OWNER" ELSE NoRole]
        ELSE [s \in Sessions |-> IF s = "s1" THEN "VIEWER" ELSE "OPERATOR"]]

\* the global role of every user is VIEWER
NoAdmins == [c \in Conns |-> "VIEWER"]

\* the user tables in which the owner of s1, no member of s2, may be ADMIN
UserTables == { [NoAdmins EXCEPT !["c1"] = r] : r \in {"ADMIN", "VIEWER"} }

\* the session table: a row for each session, as created
InitStored ==
    [s \in Sessions |-> [exists |-> TRUE, status |-> "ACTIVE", outputBuffer |-> <<>>]]

\* the inviteToken table: an invite to s2 that can be redeemed, one already
\* used, one past its expiry, one both; the token "unknown" has no row
Tokens == {"fresh", "used", "expired", "stale", "unknown"}

InitInvites ==
    [t \in Tokens \ {"unknown"} |->
        [sessionId |-> "s2", role |-> "OPERATOR",
         usedAt |-> t \in {"used", "stale"},
         expired |-> t \in {"expired", "stale"}]]

InitBase ==
    /\ ptyAvailable \in BOOLEAN
    /\ sessions = [s \in Sessions |-> 0]
    /\ procs = [p \in Procs |-> NoProc]
    /\ nprocs = 0
    /\ sock = [c \in Conns |->
                [connected |-> TRUE, sessionId |-> NoSession, sessionRole |-> NoRole]]
    /\ rooms = [s \in Sessions |-> {}]
    /\ pending = EmptyBag
    /\ memberDB = InitMembers
    /\ stored = InitStored
    /\ inflight = EmptyBag
    /\ invites = InitInvites
    /\ redeems = EmptyBag
    /\ thrown = NoError
    /\ sent = Quiet
    /\ calls = <<>>
    /\ steps = 0

Init ==
    /\ InitBase
    /\ userDB = NoAdmins
    /\ dbWatch = FALSE

\* ------------------------------------------------------------------------
\* socket.io
\* ------------------------------------------------------------------------
\* socket.emit(ev): reaches the client only over an open connection
\* a socket that drops error events
SocketEmitDropsErrors(sentf, c, ev) ==
    IF sock[c].connected /\ ev.ev # "error"
    THEN [sentf EXCEPT ![c] = Append(@, ev)] ELSE sentf

SocketEmit(sentf, c, ev) ==
    IF sock[c].connected THEN [sentf EXCEPT ![c] = Append(@, ev)] ELSE sentf

\* the room emit putting the event ahead of what the handler already sent
RoomEmitAhead(sentf, s, ev) ==
    [c \in Conns |->
        IF c \in rooms[s] /\ sock[c].connected THEN << ev >> \o sentf[c]
        ELSE sentf[c]]

\* io.to(`session:${s}`).emit(ev): once to every open connection of the room
RoomEmit(sentf, s, ev) ==
    [c \in Conns |->
        IF c \in rooms[s] /\ sock[c].connected THEN Append(sentf[c], ev)
        ELSE sentf[c]]

\* ------------------------------------------------------------------------
\* Gateway handlers of the manager's events.  m is the state a handler has
\* built so far: [sessions, procs, sent, calls, db], db the session.update
\* calls it has issued.
\* ------------------------------------------------------------------------
\* getBuffer(sessionId)
GetBuffer(m, s) ==
    IF m.sessions[s] = 0 THEN <<>> ELSE m.procs[m.sessions[s]].outputBuffer

\* exists() answering false whatever the registry holds
ExistsNever(m, s) == FALSE

\* exists(sessionId)
Exists(m, s) == m.sessions[s] # 0

\* SessionService.updateOutputBuffer up to its prisma call: the update it
\* issues, holding the last MIRROR_SIZE units of the buffer it was given
UpdateOutputBuffer(s, output) ==
    [fn |-> "updateOutputBuffer", s |-> s, status |-> "",
     outputBuffer |-> SliceLast(output, MIRROR_SIZE)]

\* SessionService.updateStatus up to its prisma call
UpdateStatus(s, status) ==
    [fn |-> "updateStatus", s |-> s, status |-> status, outputBuffer |-> <<>>]

\* the output handler emitting to every open connection (io.emit)
OutputHandlerToAll(m, s, data) ==
    [m EXCEPT !.sent = [c \in Conns |->
                           IF sock[c].connected THEN Append(@[c], OutputEv(data))
                           ELSE @[c]]]

\* the output handler emitting every payload to the room twice
OutputHandlerTwice(m, s, data) ==
    [m EXCEPT !.sent = RoomEmit(RoomEmit(@, s, OutputEv(data)), s, OutputEv(data))]

\* ptyManager.on('output')
OutputHandler(m, s, data) ==
    [m EXCEPT !.sent = RoomEmit(@, s, OutputEv(data)),
              !.db = Append(@, UpdateOutputBuffer(s, GetBuffer(m, s)))]

\* the exit handler emitting to every open connection, attached or not
ExitHandlerToAll(m, s, code) ==
    [m EXCEPT !.sent = [c \in Conns |->
                           IF sock[c].connected THEN Append(@[c], ExitEv(code))
                           ELSE @[c]]]

\* ptyManager.on('exit')
ExitHandler(m, s, code) ==
    [m EXCEPT !.sent = RoomEmit(@, s, ExitEv(code)),
              !.db = Append(@, UpdateStatus(s, "TERMINATED"))]

\* ------------------------------------------------------------------------
\* PtyManager
\* ------------------------------------------------------------------------
\* the buffer update without the trim
AppendOutputUncapped(buffer, data) == buffer \o data

\* the buffer update trimming one unit too many
AppendOutputShort(buffer, data) ==
    LET appended == buffer \o data
    IN  IF StrLen(appended) > MAX_BUFFER_SIZE
        THEN SliceLast(appended, MAX_BUFFER_SIZE - 1)
        ELSE appended

\* the onData listener's buffer update: append, keep under max size
AppendOutput(buffer, data) ==
    LET appended == buffer \o data
    IN  IF StrLen(appended) > MAX_BUFFER_SIZE
        THEN SliceLast(appended, MAX_BUFFER_SIZE)
        ELSE appended

\* ptyProcess.onData listener of process p: it appends to the PtySession
\* object of its own spawn, registered or not
OnData(m, p, data) ==
    LET m1 == [m EXCEPT !.procs[p].outputBuffer = AppendOutput(@, data),
                        !.procs[p].produced = @ \o data]
    IN  OutputHandler(m1, m.procs[p].sid, data)

\* the exit listener without the delete
OnExitKeepsRecord(m, p, code) ==
    [ExitHandler(m, m.procs[p].sid, code) EXCEPT !.procs[p].st = "exited"]

\* ptyProcess.onExit listener of process p: emit 'exit', then delete whatever
\* entry the session id has
OnExit(m, p, code) ==
    LET s == m.procs[p].sid
        m1 == ExitHandler(m, s, code)
    IN  [m1 EXCEPT !.sessions[s] = 0, !.procs[p].st = "exited"]

\* the state a handler starts from, and the state it leaves
Cur == [sessions |-> sessions, procs |-> procs, sent |-> Quiet, calls |-> <<>>,
        db |-> <<>>]

\* the bag of the updates in a sequence of issued updates
RECURSIVE Issued(_)
Issued(db) ==
    IF db = <<>> THEN EmptyBag ELSE SetToBag({Head(db)}) (+) Issued(Tail(db))

Commit(m) ==
    /\ sessions' = m.sessions
    /\ procs' = m.procs
    /\ sent' = m.sent
    /\ calls' = m.calls
    /\ inflight' = IF dbWatch THEN inflight (+) Issued(m.db) ELSE inflight

WriteCall(p, data) == [fn |-> "write", p |-> p, data |-> data]
SpawnCall(p) == [fn |-> "spawn", p |-> p, data |-> <<>>]
KillCall(p) == [fn |-> "kill", p |-> p, data |-> <<>>]
ResizeCall(p) == [fn |-> "resize", p |-> p, data |-> <<>>]

\* ------------------------------------------------------------------------
\* socket.on('session:join'), up to the await: the handler starts the role
\* lookup, which reads the member row of the connection's user.
\* ------------------------------------------------------------------------
\* one more handler runs
Tick == steps < MaxSteps /\ steps' = steps + 1

\* the lookup answering VIEWER for a user with no member row
GetUserRoleDefaultViewer(s, c) ==
    IF memberDB[c][s] = NoRole THEN "VIEWER" ELSE memberDB[c][s]

\* the lookup reading the member row of another session
GetUserRoleAnySession(s, c) == memberDB[c]["s2"]

GetUserRole(s, c) == memberDB[c][s]

JoinRequest(c, s) ==
    /\ Tick
    /\ thrown' = NoError
    /\ sock[c].connected
    /\ pending' = pending (+) SetToBag({[c |-> c, s |-> s, role |-> GetUserRole(s, c)]})
    /\ sent' = Quiet
    /\ calls' = <<>>
    /\ UNCHANGED << ptyAvailable, sessions, procs, nprocs, sock, rooms,
                    memberDB, userDB, stored, dbWatch,
                    invites, redeems, inflight >>

\* a spawn whose record starts with a header line in its buffer
NewProcWithHeader(s) ==
    [NoProc EXCEPT !.sid = s, !.st = "running", !.banner = ~ptyAvailable,
                   !.outputBuffer = Literal(<<"$">>)]

\* PtyManager.spawn once the has() check has passed: a new pty and its
\* PtySession object, registered under s
NewProc(s) ==
    [NoProc EXCEPT !.sid = s, !.st = "running", !.banner = ~ptyAvailable]

\* what the environment does to one run of the handler
Outcomes == {"ok", "lookup rejects", "spawn throws"}

\* the join handler spawning again when the joiner is already attached
JoinResumeRespawns(j, outcome) ==
    LET c == j.c
        s == j.s
        buffer == GetBuffer(Cur, s)
        sent1 == IF buffer # <<>> THEN SocketEmit(Quiet, c, OutputEv(buffer))
                 ELSE Quiet
        np == nprocs + 1
    IN
    /\ Tick
    /\ thrown' = NoError
    /\ BagIn(j, pending)
    /\ pending' = pending (-) SetToBag({j})
    /\ IF outcome = "lookup rejects"
       THEN /\ sent' = SocketEmit(Quiet, c, ErrorEv("Failed to join session"))
            /\ calls' = <<>>
            /\ UNCHANGED << sessions, procs, nprocs, sock, rooms >>
       ELSE IF j.role = NoRole
       THEN /\ outcome = "ok"
            /\ sent' = SocketEmit(Quiet, c, ErrorEv("Access denied"))
            /\ calls' = <<>>
            /\ UNCHANGED << sessions, procs, nprocs, sock, rooms >>
       ELSE /\ sock' = [sock EXCEPT ![c].sessionId = s, ![c].sessionRole = j.role]
            /\ rooms' = [rooms EXCEPT ![s] = @ \cup {c}]
            /\ IF Exists(Cur, s) /\ c \notin rooms[s]
               THEN /\ outcome = "ok"
                    /\ sent' = SocketEmit(sent1, c, JoinedEv(s, j.role))
                    /\ calls' = <<>>
                    /\ UNCHANGED << sessions, procs, nprocs >>
               ELSE /\ nprocs < MaxProcs
                    /\ outcome = "spawn throws" => ptyAvailable
                    /\ IF outcome = "ok"
                       THEN /\ procs' = [procs EXCEPT ![np] = NewProc(s)]
                            /\ sessions' = [sessions EXCEPT ![s] = np]
                            /\ nprocs' = np
                            /\ sent' = SocketEmit(sent1, c, JoinedEv(s, j.role))
                            /\ calls' = << SpawnCall(np) >>
                       ELSE /\ sent' = SocketEmit(sent1, c,
                                          ErrorEv("Failed to join session"))
                            /\ calls' = <<>>
                            /\ UNCHANGED << sessions, procs, nprocs >>
    /\ UNCHANGED << ptyAvailable, memberDB, userDB, stored, dbWatch,
                    invites, redeems, inflight >>

\* ------------------------------------------------------------------------
\* socket.on('session:join'), from the await on.  The lookup may reject (a
\* database error), and node-pty may throw in spawn; MockPty never throws.
\* ------------------------------------------------------------------------
JoinResume(j, outcome) ==
    LET c == j.c
        s == j.s
        buffer == GetBuffer(Cur, s)
        sent1 == IF buffer # <<>> THEN SocketEmit(Quiet, c, OutputEv(buffer))
                 ELSE Quiet
        np == nprocs + 1
    IN
    /\ Tick
    /\ thrown' = NoError
    /\ BagIn(j, pending)
    /\ pending' = pending (-) SetToBag({j})
    /\ IF outcome = "lookup rejects"
       THEN /\ sent' = SocketEmit(Quiet, c, ErrorEv("Failed to join session"))
            /\ calls' = <<>>
            /\ UNCHANGED << sessions, procs, nprocs, sock, rooms >>
       ELSE IF j.role = NoRole
       THEN /\ outcome = "ok"
            /\ sent' = SocketEmit(Quiet, c, ErrorEv("Access denied"))
            /\ calls' = <<>>
            /\ UNCHANGED << sessions, procs, nprocs, sock, rooms >>
       ELSE /\ sock' = [sock EXCEPT ![c].sessionId = s, ![c].sessionRole = j.role]
            /\ rooms' = [rooms EXCEPT ![s] = @ \cup {c}]
            /\ IF Exists(Cur, s)
               THEN /\ outcome = "ok"
                    /\ sent' = SocketEmit(sent1, c, JoinedEv(s, j.role))
                    /\ calls' = <<>>
                    /\ UNCHANGED << sessions, procs, nprocs >>
               ELSE /\ nprocs < MaxProcs
                    /\ outcome = "spawn throws" => ptyAvailable
                    /\ IF outcome = "ok"
                       THEN /\ procs' = [procs EXCEPT ![np] = NewProc(s)]
                            /\ sessions' = [sessions EXCEPT ![s] = np]
                            /\ nprocs' = np
                            /\ sent' = SocketEmit(sent1, c, JoinedEv(s, j.role))
                            /\ calls' = << SpawnCall(np) >>
                       ELSE /\ sent' = SocketEmit(sent1, c,
                                          ErrorEv("Failed to join session"))
                            /\ calls' = <<>>
                            /\ UNCHANGED << sessions, procs, nprocs >>
    /\ UNCHANGED << ptyAvailable, memberDB, userDB, stored, dbWatch,
                    invites, redeems, inflight >>

\* ------------------------------------------------------------------------
\* MockPty.write: echo through the data listener, and one delayed response
\* timer when the data holds a line terminator
\* ------------------------------------------------------------------------
\* a MockPty arming its response timer on every write
MockWriteAlwaysResponds(m, p, data) ==
    LET m1 == OnData(m, p, data)
    IN  [m1 EXCEPT !.procs[p].resp = @ + 1]

MockWrite(m, p, data) ==
    LET m1 == OnData(m, p, data)
    IN  [m1 EXCEPT !.procs[p].resp =
                       IF HasLineTerminator(data) THEN @ + 1 ELSE @]

\* IPty.write of the session's pty (node-pty hands the data to the process)
PtyWrite(m, p, data) == IF ptyAvailable THEN m ELSE MockWrite(m, p, data)

\* write() handing the data to the pty of every registered session
ManagerWriteAll(m, s, data) ==
    LET ps == { m.sessions[x] : x \in {y \in Sessions : m.sessions[y] # 0} }
        RECURSIVE go(_, _)
        go(mm, rest) ==
            IF rest = {} THEN mm
            ELSE LET q == CHOOSE x \in rest : TRUE
                 IN  go([mm EXCEPT !.calls = Append(@, WriteCall(q, data))],
                        rest \ {q})
    IN  go(m, ps)

\* PtyManager.write past its `Session not found` check: session.pty.write(data)
ManagerWrite(m, s, data) ==
    LET p == m.sessions[s]
    IN  PtyWrite([m EXCEPT !.calls = Append(@, WriteCall(p, data))], p, data)

\* the role test comparing with a name no stored role has
IsViewerMisspelt(role) == role = "OBSERVER"

\* the role test of the input handler: viewers are refused
IsViewer(role) == role = "VIEWER"

\* the input handler without its sessionId test: the write is attempted with
\* an undefined session id and fails
InputUnchecked(c, data) ==
    LET s == sock[c].sessionId
        role == sock[c].sessionRole
    IN
    /\ Tick
    /\ thrown' = NoError
    /\ sock[c].connected
    /\ IF IsViewer(role)
       THEN /\ sent' = SocketEmit(Quiet, c, ErrorEv("Viewers cannot send input"))
            /\ calls' = <<>>
            /\ UNCHANGED << inflight, sessions, procs >>
       ELSE IF s = NoSession \/ ~Exists(Cur, s)
       THEN /\ sent' = SocketEmit(Quiet, c, ErrorEv("Failed to send input"))
            /\ calls' = <<>>
            /\ UNCHANGED << inflight, sessions, procs >>
       ELSE Commit(ManagerWrite(Cur, s, data))
    /\ UNCHANGED << ptyAvailable, nprocs, sock, rooms, pending, memberDB, userDB, stored, dbWatch,
                    invites, redeems >>

\* the input handler detaching the sender when the write fails
InputDetachesOnFailure(c, data) ==
    LET s == sock[c].sessionId
        role == sock[c].sessionRole
    IN
    /\ Tick
    /\ thrown' = NoError
    /\ sock[c].connected
    /\ IF s = NoSession
       THEN /\ sent' = SocketEmit(Quiet, c, ErrorEv("Not in a session"))
            /\ calls' = <<>>
            /\ UNCHANGED << inflight, sessions, procs, sock, rooms >>
       ELSE IF IsViewer(role)
       THEN /\ sent' = SocketEmit(Quiet, c, ErrorEv("Viewers cannot send input"))
            /\ calls' = <<>>
            /\ UNCHANGED << inflight, sessions, procs, sock, rooms >>
       ELSE IF ~Exists(Cur, s)
       THEN /\ sent' = SocketEmit(Quiet, c, ErrorEv("Failed to send input"))
            /\ calls' = <<>>
            /\ sock' = [sock EXCEPT ![c].sessionId = NoSession,
                                    ![c].sessionRole = NoRole]
            /\ rooms' = [rooms EXCEPT ![s] = @ \ {c}]
            /\ UNCHANGED << inflight, sessions, procs >>
       ELSE /\ Commit(ManagerWrite(Cur, s, data))
            /\ UNCHANGED << sock, rooms >>
    /\ UNCHANGED << ptyAvailable, nprocs, pending, memberDB, userDB, stored, dbWatch,
                    invites, redeems >>

\* the input handler looking the sender's role up in the member table
InputChecksStoredRole(c, data) ==
    LET s == sock[c].sessionId
        role == IF s = NoSession THEN NoRole ELSE GetUserRole(s, c)
    IN
    /\ Tick
    /\ thrown' = NoError
    /\ sock[c].connected
    /\ IF s = NoSession
       THEN /\ sent' = SocketEmit(Quiet, c, ErrorEv("Not in a session"))
            /\ calls' = <<>>
            /\ UNCHANGED << inflight, sessions, procs >>
       ELSE IF IsViewer(role)
       THEN /\ sent' = SocketEmit(Quiet, c, ErrorEv("Viewers cannot send input"))
            /\ calls' = <<>>
            /\ UNCHANGED << inflight, sessions, procs >>
       ELSE IF ~Exists(Cur, s)
       THEN /\ sent' = SocketEmit(Quiet, c, ErrorEv("Failed to send input"))
            /\ calls' = <<>>
            /\ UNCHANGED << inflight, sessions, procs >>
       ELSE Commit(ManagerWrite(Cur, s, data))
    /\ UNCHANGED << ptyAvailable, nprocs, sock, rooms, pending, memberDB, userDB,
                    stored, dbWatch, invites, redeems >>

\* ------------------------------------------------------------------------
\* socket.on('session:input')
\* ------------------------------------------------------------------------
Input(c, data) ==
    LET s == sock[c].sessionId
        role == sock[c].sessionRole
    IN
    /\ Tick
    /\ thrown' = NoError
    /\ sock[c].connected
    /\ IF s = NoSession
       THEN /\ sent' = SocketEmit(Quiet, c, ErrorEv("Not in a session"))
            /\ calls' = <<>>
            /\ UNCHANGED << inflight, sessions, procs >>
       ELSE IF IsViewer(role)
       THEN /\ sent' = SocketEmit(Quiet, c, ErrorEv("Viewers cannot send input"))
            /\ calls' = <<>>
            /\ UNCHANGED << inflight, sessions, procs >>
       ELSE IF ~Exists(Cur, s)
       THEN /\ sent' = SocketEmit(Quiet, c, ErrorEv("Failed to send input"))
            /\ calls' = <<>>
            /\ UNCHANGED << inflight, sessions, procs >>
       ELSE Commit(ManagerWrite(Cur, s, data))
    /\ UNCHANGED << ptyAvailable, nprocs, sock, rooms, pending, memberDB, userDB, stored, dbWatch,
                    invites, redeems >>

\* ------------------------------------------------------------------------
\* socket.on('session:resize')
\* ------------------------------------------------------------------------
\* the resize handler reporting a failed resize to the sender
ResizeReportsFailure(c) ==
    LET s == sock[c].sessionId
        p == IF s = NoSession THEN 0 ELSE sessions[s]
    IN
    /\ Tick
    /\ thrown' = NoError
    /\ sock[c].connected
    /\ sent' = IF s # NoSession /\ p = 0
               THEN SocketEmit(Quiet, c, ErrorEv("Failed to resize"))
               ELSE Quiet
    /\ calls' = IF p = 0 THEN <<>> ELSE << ResizeCall(p) >>
    /\ UNCHANGED << ptyAvailable, sessions, procs, nprocs, sock, rooms,
                    pending, memberDB, userDB, stored, dbWatch,
                    invites, redeems, inflight >>

Resize(c) ==
    LET s == sock[c].sessionId
        p == IF s = NoSession THEN 0 ELSE sessions[s]
    IN
    /\ Tick
    /\ thrown' = NoError
    /\ sock[c].connected
    /\ sent' = Quiet
    /\ calls' = IF p = 0 THEN <<>> ELSE << ResizeCall(p) >>
    /\ UNCHANGED << ptyAvailable, sessions, procs, nprocs, sock, rooms,
                    pending, memberDB, userDB, stored, dbWatch,
                    invites, redeems, inflight >>

\* ------------------------------------------------------------------------
\* socket.on('session:leave')
\* ------------------------------------------------------------------------
\* the leave handler clearing the socket's fields but staying in the room
LeaveKeepsRoom(c) ==
    /\ Tick
    /\ thrown' = NoError
    /\ sock[c].connected
    /\ sent' = Quiet
    /\ calls' = <<>>
    /\ sock' = [sock EXCEPT ![c].sessionId = NoSession,
                            ![c].sessionRole = NoRole]
    /\ UNCHANGED << ptyAvailable, sessions, procs, nprocs, rooms, pending,
                    memberDB, userDB, stored, dbWatch,
                    invites, redeems, inflight >>

\* the leave handler emptying the room (io.socketsLeave) instead of leaving it
LeaveEmptiesRoom(c) ==
    LET s == sock[c].sessionId
    IN
    /\ Tick
    /\ thrown' = NoError
    /\ sock[c].connected
    /\ sent' = Quiet
    /\ calls' = <<>>
    /\ IF s # NoSession
       THEN /\ rooms' = [rooms EXCEPT ![s] = {}]
            /\ sock' = [sock EXCEPT ![c].sessionId = NoSession,
                                    ![c].sessionRole = NoRole]
       ELSE UNCHANGED << rooms, sock >>
    /\ UNCHANGED << ptyAvailable, sessions, procs, nprocs, pending,
                    memberDB, userDB, stored, dbWatch,
                    invites, redeems, inflight >>

Leave(c) ==
    LET s == sock[c].sessionId
    IN
    /\ Tick
    /\ thrown' = NoError
    /\ sock[c].connected
    /\ sent' = Quiet
    /\ calls' = <<>>
    /\ IF s # NoSession
       THEN /\ rooms' = [rooms EXCEPT ![s] = @ \ {c}]
            /\ sock' = [sock EXCEPT ![c].sessionId = NoSession,
                                    ![c].sessionRole = NoRole]
       ELSE UNCHANGED << rooms, sock >>
    /\ UNCHANGED << ptyAvailable, sessions, procs, nprocs, pending,
                    memberDB, userDB, stored, dbWatch,
                    invites, redeems, inflight >>

\* ------------------------------------------------------------------------
\* The transport closes: socket.io takes the socket out of every room, then
\* socket.on('disconnect') logs.  No event of the connection arrives later.
\* ------------------------------------------------------------------------
Disconnect(c) ==
    /\ Tick
    /\ thrown' = NoError
    /\ sock[c].connected
    /\ sock' = [sock EXCEPT ![c].connected = FALSE]
    /\ rooms' = [s \in Sessions |-> rooms[s] \ {c}]
    /\ sent' = Quiet
    /\ calls' = <<>>
    /\ UNCHANGED << ptyAvailable, sessions, procs, nprocs, pending,
                    memberDB, userDB, stored, dbWatch,
                    invites, redeems, inflight >>

\* ------------------------------------------------------------------------
\* PtyManager.kill.  MockPty.kill calls the exit listener at once; node-pty
\* signals the process, whose exit event comes later.
\* ------------------------------------------------------------------------
PtyKill(m, p) ==
    LET m1 == [m EXCEPT !.procs[p].killed = TRUE,
                        !.calls = Append(@, KillCall(p))]
    IN  IF ptyAvailable THEN m1 ELSE OnExit(m1, p, 0)

\* kill() announcing an exit also when the session has no record
KillAlwaysEmits(s) ==
    LET p == sessions[s]
    IN
    /\ Tick
    /\ thrown' = NoError
    /\ IF p # 0
       THEN Commit([PtyKill(Cur, p) EXCEPT !.sessions[s] = 0])
       ELSE /\ calls' = <<>>
            /\ sent' = RoomEmit(Quiet, s, ExitEv(0))
            /\ UNCHANGED << inflight, sessions, procs >>
    /\ UNCHANGED << ptyAvailable, nprocs, sock, rooms, pending, memberDB, userDB, stored, dbWatch,
                    invites, redeems >>

\* PtyManager.kill(sessionId)
Kill(s) ==
    LET p == sessions[s]
    IN
    /\ Tick
    /\ thrown' = NoError
    /\ IF p # 0
       THEN Commit([PtyKill(Cur, p) EXCEPT !.sessions[s] = 0])
       ELSE /\ calls' = <<>>
            /\ sent' = Quiet
            /\ UNCHANGED << inflight, sessions, procs >>
    /\ UNCHANGED << ptyAvailable, nprocs, sock, rooms, pending, memberDB, userDB, stored, dbWatch,
                    invites, redeems >>

\* ------------------------------------------------------------------------
\* Events of a node-pty process
\* ------------------------------------------------------------------------
RealOutput(p, len) ==
    /\ Tick
    /\ thrown' = NoError
    /\ ptyAvailable
    /\ procs[p].st = "running"
    /\ Commit(OnData(Cur, p, Opaque(p, steps + 1, len)))
    /\ UNCHANGED << ptyAvailable, nprocs, sock, rooms, pending, memberDB, userDB, stored, dbWatch,
                    invites, redeems >>

RealExit(p, code) ==
    /\ Tick
    /\ thrown' = NoError
    /\ ptyAvailable
    /\ procs[p].st = "running"
    /\ Commit(OnExit(Cur, p, code))
    /\ UNCHANGED << ptyAvailable, nprocs, sock, rooms, pending, memberDB, userDB, stored, dbWatch,
                    invites, redeems >>

\* ------------------------------------------------------------------------
\* Timers of a MockPty: they fire whether or not the pty was killed
\* ------------------------------------------------------------------------
RECURSIVE EmitAll(_, _, _)
EmitAll(m, p, texts) ==
    IF texts = <<>> THEN m
    ELSE EmitAll(OnData(m, p, Head(texts)), p, Tail(texts))

BannerTimer(p) ==
    /\ Tick
    /\ thrown' = NoError
    /\ procs[p].banner
    /\ Commit([EmitAll(Cur, p, BannerTexts) EXCEPT !.procs[p].banner = FALSE])
    /\ UNCHANGED << ptyAvailable, nprocs, sock, rooms, pending, memberDB, userDB, stored, dbWatch,
                    invites, redeems >>

ResponseTimer(p) ==
    /\ Tick
    /\ thrown' = NoError
    /\ procs[p].resp > 0
    /\ Commit([OnData(Cur, p, ResponseText) EXCEPT !.procs[p].resp = @ - 1])
    /\ UNCHANGED << ptyAvailable, nprocs, sock, rooms, pending, memberDB, userDB, stored, dbWatch,
                    invites, redeems >>

\* ------------------------------------------------------------------------
Next ==
    \/ \E c \in Conns, s \in Sessions : JoinRequest(c, s)
    \/ \E j \in BagToSet(pending), o \in Outcomes : JoinResume(j, o)
    \/ \E c \in Conns, d \in Inputs : Input(c, d)
    \/ \E c \in Conns : Resize(c)
    \/ \E c \in Conns : Leave(c)
    \/ \E c \in Conns : Disconnect(c)
    \/ \E s \in Sessions : Kill(s)
    \/ \E p \in Procs, len \in ChunkLens : RealOutput(p, len)
    \/ \E p \in Procs, code \in ExitCodes : RealExit(p, code)
    \/ \E p \in Procs : BannerTimer(p)
    \/ \E p \in Procs : ResponseTimer(p)

Spec == Init /\ [][Next]_vars

\* the same program over a user table that may hold an administrator
InitAdmin ==
    /\ InitBase
    /\ userDB \in UserTables
    /\ dbWatch = FALSE

SpecAdmin == InitAdmin /\ [][Next]_vars

\* ------------------------------------------------------------------------
\* The persistence bridge: the promise of a session.update issued by the
\* output or the exit handler settles.  The handlers attach .catch(() => {}),
\* so a rejection runs an empty callback.  An update resolves only while its
\* row exists.  A promise that never settles is one this action never takes.
\* ------------------------------------------------------------------------
Settlements == {"resolves", "rejects"}

\* a rejected update announced to the session's room
SettleSurfacesFailure(w, outcome) ==
    /\ Tick
    /\ thrown' = NoError
    /\ BagIn(w, inflight)
    /\ inflight' = inflight (-) SetToBag({w})
    /\ outcome = "resolves" => stored[w.s].exists
    /\ stored' = IF outcome = "rejects" THEN stored
                 ELSE IF w.fn = "updateStatus"
                 THEN [stored EXCEPT ![w.s].status = w.status]
                 ELSE [stored EXCEPT ![w.s].outputBuffer = w.outputBuffer]
    /\ sent' = IF outcome = "rejects"
               THEN RoomEmit(Quiet, w.s, ErrorEv("Failed to save session"))
               ELSE Quiet
    /\ calls' = <<>>
    /\ UNCHANGED << ptyAvailable, sessions, procs, nprocs, sock, rooms,
                    pending, memberDB, userDB, dbWatch, invites, redeems >>

Settle(w, outcome) ==
    /\ Tick
    /\ thrown' = NoError
    /\ BagIn(w, inflight)
    /\ inflight' = inflight (-) SetToBag({w})
    /\ outcome = "resolves" => stored[w.s].exists
    /\ stored' = IF outcome = "rejects" THEN stored
                 ELSE IF w.fn = "updateStatus"
                 THEN [stored EXCEPT ![w.s].status = w.status]
                 ELSE [stored EXCEPT ![w.s].outputBuffer = w.outputBuffer]
    /\ sent' = Quiet
    /\ calls' = <<>>
    /\ UNCHANGED << ptyAvailable, sessions, procs, nprocs, sock, rooms,
                    pending, memberDB, userDB, dbWatch, invites, redeems >>

InitPersist ==
    /\ InitBase
    /\ userDB = NoAdmins
    /\ dbWatch = TRUE

NextPersist ==
    \/ Next
    \/ \E w \in BagToSet(inflight), o \in Settlements : Settle(w, o)

\* the program with its session.update calls followed to their settlement
SpecPersist == InitPersist /\ [][NextPersist]_vars

NextMirror ==
    \/ Next
    \/ \E w \in BagToSet(inflight) : Settle(w, "resolves")

\* the program with every session.update it issues succeeding, in any order
SpecMirror == InitPersist /\ [][NextMirror]_vars

\* ------------------------------------------------------------------------
\* PtyManager.spawn called on its own, by any caller of the manager
\* ------------------------------------------------------------------------
\* spawn() without the has() check: the new record replaces the old one
SpawnReplaces(s, outcome) ==
    LET np == nprocs + 1
    IN
    /\ Tick
    /\ nprocs < MaxProcs
    /\ outcome = "spawn throws" => ptyAvailable
    /\ IF outcome = "ok"
       THEN /\ procs' = [procs EXCEPT ![np] = NewProc(s)]
            /\ sessions' = [sessions EXCEPT ![s] = np]
            /\ nprocs' = np
            /\ calls' = << SpawnCall(np) >>
            /\ thrown' = NoError
       ELSE /\ calls' = <<>>
            /\ thrown' = "spawn failed"
            /\ UNCHANGED << sessions, procs, nprocs >>
    /\ sent' = Quiet
    /\ UNCHANGED << ptyAvailable, sock, rooms, pending, memberDB, userDB,
                    stored, dbWatch, invites, redeems, inflight >>

Spawn(s, outcome) ==
    LET np == nprocs + 1
    IN
    /\ Tick
    /\ IF Exists(Cur, s)
       THEN /\ outcome = "ok"
            /\ calls' = <<>>
            /\ thrown' = "Session already exists"
            /\ UNCHANGED << sessions, procs, nprocs >>
       ELSE /\ nprocs < MaxProcs
            /\ outcome = "spawn throws" => ptyAvailable
            /\ IF outcome = "ok"
               THEN /\ procs' = [procs EXCEPT ![np] = NewProc(s)]
                    /\ sessions' = [sessions EXCEPT ![s] = np]
                    /\ nprocs' = np
                    /\ calls' = << SpawnCall(np) >>
                    /\ thrown' = NoError
               ELSE /\ calls' = <<>>
                    /\ thrown' = "spawn failed"
                    /\ UNCHANGED << sessions, procs, nprocs >>
    /\ sent' = Quiet
    /\ UNCHANGED << ptyAvailable, sock, rooms, pending, memberDB, userDB,
                    stored, dbWatch, invites, redeems, inflight >>

NextApi ==
    \/ Next
    \/ \E s \in Sessions, o \in {"ok", "spawn throws"} : Spawn(s, o)

\* the program with the manager's spawn open to every caller
SpecApi == Init /\ [][NextApi]_vars

\* ------------------------------------------------------------------------
\* SessionService.delete: the session row goes, and with it (ON DELETE
\* CASCADE) the member rows of the session
\* ------------------------------------------------------------------------
Delete(s) ==
    /\ Tick
    /\ thrown' = NoError
    /\ stored[s].exists
    /\ stored' = [stored EXCEPT ![s].exists = FALSE]
    /\ memberDB' = [c \in Conns |-> [memberDB[c] EXCEPT ![s] = NoRole]]
    /\ sent' = Quiet
    /\ calls' = <<>>
    /\ UNCHANGED << ptyAvailable, sessions, procs, nprocs, sock, rooms,
                    pending, userDB, dbWatch, invites, redeems, inflight >>

NextRoles ==
    \/ Next
    \/ \E s \in Sessions : Delete(s)

\* the program with its sessions being deleted
SpecRoles == Init /\ [][NextRoles]_vars

\* ------------------------------------------------------------------------
\* SessionService.redeemInvite, one action for each stretch between awaits.
\* A call in redeems is [t, u, pc, sessionId, role]: the token and the user
\* it was called with, the await it is suspended in, and what it has read
\* of the invite.
\* ------------------------------------------------------------------------
\* one more stretch of a redeemInvite call runs, or time passes
RedeemTick == steps < MaxRedeemSteps /\ steps' = steps + 1

RedeemCall(t, u, pc, s, role) ==
    [t |-> t, u |-> u, pc |-> pc, sessionId |-> s, role |-> role]

GatewayVars == << ptyAvailable, sessions, procs, nprocs, sock, rooms, pending,
                  userDB, stored, inflight, dbWatch >>

\* the call, up to its first await: inviteToken.findUnique is issued
RedeemInvite(t, u) ==
    /\ RedeemTick
    /\ thrown' = NoError
    /\ redeems' = redeems (+) SetToBag({RedeemCall(t, u, "findUnique", NoSession, NoRole)})
    /\ sent' = Quiet
    /\ calls' = <<>>
    /\ UNCHANGED << GatewayVars, memberDB, invites >>

\* the checks letting a used invite through
RedeemFoundIgnoresUse(r) ==
    /\ RedeemTick
    /\ BagIn(r, redeems)
    /\ r.pc = "findUnique"
    /\ IF r.t \notin DOMAIN invites
       THEN /\ thrown' = "Invalid invite token"
            /\ redeems' = redeems (-) SetToBag({r})
       ELSE IF invites[r.t].expired
       THEN /\ thrown' = "Invite expired"
            /\ redeems' = redeems (-) SetToBag({r})
       ELSE /\ thrown' = NoError
            /\ redeems' = (redeems (-) SetToBag({r})) (+)
                 SetToBag({RedeemCall(r.t, r.u, "update",
                                      invites[r.t].sessionId, invites[r.t].role)})
    /\ sent' = Quiet
    /\ calls' = <<>>
    /\ UNCHANGED << GatewayVars, memberDB, invites >>

\* findUnique resolved: the three checks, then inviteToken.update is issued
RedeemFound(r) ==
    /\ RedeemTick
    /\ BagIn(r, redeems)
    /\ r.pc = "findUnique"
    /\ IF r.t \notin DOMAIN invites
       THEN /\ thrown' = "Invalid invite token"
            /\ redeems' = redeems (-) SetToBag({r})
       ELSE IF invites[r.t].usedAt
       THEN /\ thrown' = "Invite already used"
            /\ redeems' = redeems (-) SetToBag({r})
       ELSE IF invites[r.t].expired
       THEN /\ thrown' = "Invite expired"
            /\ redeems' = redeems (-) SetToBag({r})
       ELSE /\ thrown' = NoError
            /\ redeems' = (redeems (-) SetToBag({r})) (+)
                 SetToBag({RedeemCall(r.t, r.u, "update",
                                      invites[r.t].sessionId, invites[r.t].role)})
    /\ sent' = Quiet
    /\ calls' = <<>>
    /\ UNCHANGED << GatewayVars, memberDB, invites >>

\* the update resolved (the invite is marked used): sessionMember.create is
\* issued
RedeemMarked(r) ==
    /\ RedeemTick
    /\ thrown' = NoError
    /\ BagIn(r, redeems)
    /\ r.pc = "update"
    /\ invites' = [invites EXCEPT ![r.t].usedAt = TRUE]
    /\ redeems' = (redeems (-) SetToBag({r})) (+)
                      SetToBag({[r EXCEPT !.pc = "create"]})
    /\ sent' = Quiet
    /\ calls' = <<>>
    /\ UNCHANGED << GatewayVars, memberDB >>

\* the create settled: a new member row, or a rejection when the user has a
\* row for the session already (UNIQUE(userId, sessionId))
RedeemCreated(r) ==
    /\ RedeemTick
    /\ BagIn(r, redeems)
    /\ r.pc = "create"
    /\ redeems' = redeems (-) SetToBag({r})
    /\ IF memberDB[r.u][r.sessionId] = NoRole
       THEN /\ memberDB' = [memberDB EXCEPT ![r.u][r.sessionId] = r.role]
            /\ thrown' = NoError
       ELSE /\ thrown' = "Unique constraint failed"
            /\ UNCHANGED memberDB
    /\ sent' = Quiet
    /\ calls' = <<>>
    /\ UNCHANGED << GatewayVars, invites >>

\* time passes the expiresAt of an invite
ExpireInvite(t) ==
    /\ RedeemTick
    /\ thrown' = NoError
    /\ t \in DOMAIN invites
    /\ ~invites[t].expired
    /\ invites' = [invites EXCEPT ![t].expired = TRUE]
    /\ sent' = Quiet
    /\ calls' = <<>>
    /\ UNCHANGED << GatewayVars, memberDB, redeems >>

\* the member table in which neither user is a member of s2
Strangers ==
    [c \in Conns |-> [InitMembers[c] EXCEPT !["s2"] = NoRole]]

InitStrangers ==
    /\ ptyAvailable \in BOOLEAN
    /\ sessions = [s \in Sessions |-> 0]
    /\ procs = [p \in Procs |-> NoProc]
    /\ nprocs = 0
    /\ sock = [c \in Conns |->
                [connected |-> TRUE, sessionId |-> NoSession, sessionRole |-> NoRole]]
    /\ rooms = [s \in Sessions |-> {}]
    /\ pending = EmptyBag
    /\ memberDB = Strangers
    /\ userDB = NoAdmins
    /\ stored = InitStored
    /\ inflight = EmptyBag
    /\ dbWatch = FALSE
    /\ invites = InitInvites
    /\ redeems = EmptyBag
    /\ thrown = NoError
    /\ sent = Quiet
    /\ calls = <<>>
    /\ steps = 0

NextInvite ==
    \/ \E t \in Tokens, u \in Conns : RedeemInvite(t, u)
    \/ \E r \in BagToSet(redeems) : RedeemFound(r)
    \/ \E r \in BagToSet(redeems) : RedeemMarked(r)
    \/ \E r \in BagToSet(redeems) : RedeemCreated(r)
    \/ \E t \in Tokens : ExpireInvite(t)

\* the invite service on its own
SpecInvite == Init /\ [][NextInvite]_vars

\* the invite service with two users who are not members of the session
\* the invites are for
SpecStrangers == InitStrangers /\ [][NextInvite]_vars

\* ------------------------------------------------------------------------
\* Claims
\* ------------------------------------------------------------------------
Running(p) == procs[p].st = "running"

\* the processes of session s that have not exited
LiveProcs(s) == { p \in Procs : procs[p].sid = s /\ Running(p) }

\* kill() was never used on a process of session s
KillFree(s) == \A p \in Procs : procs[p].sid = s => ~procs[p].killed

\* the join handler ran past its access check
JoinAdmitted(j, o) == JoinResume(j, o) /\ o # "lookup rejects" /\ j.role # NoRole

\* ------------------------------------------------------------------------
\* C1: whatever the interleaving of joins and the order in which their role
\* lookups complete, a process is spawned for a session only by a join that
\* finds no record of it, one process at a time; a join that finds a record
\* makes no adapter call and leaves the registry as it is; the record of a
\* session is always a running process of that session, and under joins (no
\* kill) a session never has two live processes.
\* ------------------------------------------------------------------------
C1_RecordIsLive ==
    \A s \in Sessions :
        /\ sessions[s] # 0 =>
              /\ procs[sessions[s]].sid = s
              /\ Running(sessions[s])
              /\ ~procs[sessions[s]].killed
        /\ KillFree(s) => Cardinality(LiveProcs(s)) <= 1

C1_SpawnStep ==
    /\ \A s \in Sessions :
          sessions'[s] \notin {0, sessions[s]} =>
              /\ sessions[s] = 0
              /\ sessions'[s] = nprocs + 1
    /\ nprocs' # nprocs =>
          /\ nprocs' = nprocs + 1
          /\ calls' = << SpawnCall(nprocs') >>
          /\ \E s \in Sessions : sessions[s] = 0 /\ sessions'[s] = nprocs'
    /\ \A j \in BagToSet(pending), o \in Outcomes :
          JoinResume(j, o) /\ sessions[j.s] # 0 =>
              /\ calls' = <<>>
              /\ UNCHANGED << sessions, procs, nprocs >>

C1_AtMostOneSpawn == [](C1_RecordIsLive) /\ [][C1_SpawnStep]_vars

\* two connections have joined the same session and the later join reused
\* the process the earlier one spawned
C1_Witness ==
    /\ rooms["s1"] = Conns
    /\ nprocs = 1
    /\ sessions["s1"] = 1
    /\ calls = <<>>
    /\ \E c \in Conns : sent[c] # <<>> /\ sent[c][Len(sent[c])] = JoinedEv("s1", sock[c].sessionRole)

\* ------------------------------------------------------------------------
\* C2: an input event of a connection whose cached role is VIEWER makes no
\* adapter call (no write reaches any process), changes no process, and is
\* answered by exactly one error event to the sender and nothing to others.
\* ------------------------------------------------------------------------
C2_ViewerStep ==
    \A c \in Conns, d \in Inputs :
        (Input(c, d) /\ sock[c].sessionId # NoSession
                     /\ sock[c].sessionRole = "VIEWER") =>
            /\ calls' = <<>>
            /\ procs' = procs
            /\ Len(sent'[c]) = 1
            /\ sent'[c][1].ev = "error"
            /\ \A c2 \in Conns \ {c} : sent'[c2] = <<>>

C2_ViewerInputRejected == [][C2_ViewerStep]_vars

\* a viewer attached to a session with a running process was just refused
C2_Witness ==
    \E c \in Conns :
        /\ sock[c].sessionRole = "VIEWER"
        /\ sock[c].sessionId # NoSession
        /\ sessions[sock[c].sessionId] # 0
        /\ sent[c] = << ErrorEv("Viewers cannot send input") >>

\* ------------------------------------------------------------------------
\* C3: an input event of a connection attached to session S as OWNER or
\* OPERATOR, while S has a record with a running process, makes exactly one
\* adapter call: the write of exactly that payload to S's process.
\* ------------------------------------------------------------------------
C3_DriveStep ==
    \A c \in Conns, d \in Inputs :
        LET s == sock[c].sessionId
        IN  (/\ Input(c, d)
             /\ s # NoSession
             /\ sock[c].sessionRole \in {"OWNER", "OPERATOR"}
             /\ sessions[s] # 0
             /\ Running(sessions[s])) =>
                calls' = << WriteCall(sessions[s], d) >>

C3_DriveInputWritten == [][C3_DriveStep]_vars

\* both sessions have a process and the operator's "ls\n" went to its own
C3_Witness ==
    /\ sessions["s1"] # 0
    /\ sessions["s2"] # 0
    /\ calls = << WriteCall(sessions["s2"], Literal(<<"l", "s", "\n">>)) >>

\* ------------------------------------------------------------------------
\* C4: a join that is admitted sends the joiner the whole trimmed output of
\* the session's process as one output event, ahead of everything else of
\* that join (no output event when there is no output yet), and subscribes
\* the joiner in the same step; from then on, whenever the session's process
\* produces output, every open connection subscribed to the session receives
\* exactly that output, once and in order.
\* ------------------------------------------------------------------------
\* str without its first n units, n <= StrLen(str)
RECURSIVE DropFirst(_, _)
DropFirst(str, n) ==
    IF n = 0 THEN str
    ELSE IF SegLen(Head(str)) <= n
         THEN DropFirst(Tail(str), n - SegLen(Head(str)))
         ELSE << [Head(str) EXCEPT !.lo = @ + n] >> \o Tail(str)

\* the last min(MAX_BUFFER_SIZE, |str|) units of str
LastUnits(str) ==
    IF StrLen(str) > MAX_BUFFER_SIZE
    THEN DropFirst(str, StrLen(str) - MAX_BUFFER_SIZE)
    ELSE str

\* what process p produced in this step
Delta(p) == SubSeq(procs'[p].produced, Len(procs[p].produced) + 1,
                   Len(procs'[p].produced))

C4_JoinStep ==
    \A j \in BagToSet(pending), o \in Outcomes :
        (JoinAdmitted(j, o) /\ sock[j.c].connected) =>
            LET p == sessions[j.s]
                snapshot == IF p = 0 THEN <<>> ELSE LastUnits(procs[p].produced)
                got == sent'[j.c]
            IN  /\ j.c \in rooms'[j.s]
                /\ OutputsOf(got) = snapshot
                /\ snapshot # <<>> =>
                      /\ Len(got) = 2
                      /\ got[1] = OutputEv(snapshot)
                /\ snapshot = <<>> => Len(got) = 1
                /\ got[Len(got)].ev \in {"session:joined", "error"}

C4_LiveStep ==
    \A s \in Sessions :
        LET p == sessions[s]
        IN  (p # 0 /\ Delta(p) # <<>>) =>
                \A c \in rooms[s] :
                    sock[c].connected => OutputsOf(sent'[c]) = Delta(p)

C4_CatchUpThenLive == [][C4_JoinStep /\ C4_LiveStep]_vars

\* a later joiner was sent a catch-up payload that had been trimmed, then
\* the confirmation
C4_Witness ==
    \E c \in Conns :
        /\ Len(sent[c]) = 2
        /\ sent[c][1].ev = "session:output"
        /\ sent[c][1].data[1].lo > 1
        /\ sent[c][2].ev = "session:joined"
        /\ Cardinality(rooms[sock[c].sessionId]) = 2

\* ------------------------------------------------------------------------
\* C5: the replay buffer of every session object is never longer than
\* 10000 units, whatever the sizes of the chunks appended.
\* ------------------------------------------------------------------------
C5_BufferBounded ==
    \A p \in Procs : StrLen(procs[p].outputBuffer) <= MAX_BUFFER_SIZE

\* a process has produced more than the cap and its buffer is full
C5_Witness ==
    \E p \in Procs :
        /\ StrLen(procs[p].produced) > MAX_BUFFER_SIZE
        /\ StrLen(procs[p].outputBuffer) = MAX_BUFFER_SIZE

\* ------------------------------------------------------------------------
\* C6: the replay buffer of a process is the last min(10000, n) units of the
\* n units the process has produced, in the order produced; getBuffer
\* returns it for the registered process.
\* ------------------------------------------------------------------------
C6_BufferIsTail ==
    /\ \A p \in Procs : procs[p].outputBuffer = LastUnits(procs[p].produced)
    /\ \A s \in Sessions :
          sessions[s] # 0 =>
              GetBuffer(Cur, s) = LastUnits(procs[sessions[s]].produced)

\* a chunk longer than the cap came after an earlier chunk: the buffer holds
\* the last 10000 units of the long chunk only
C6_Witness ==
    \E p \in Procs :
        /\ Len(procs[p].produced) = 2
        /\ SegLen(procs[p].produced[2]) > MAX_BUFFER_SIZE
        /\ Len(procs[p].outputBuffer) = 1
        /\ procs[p].outputBuffer[1].lo = 2

\* ------------------------------------------------------------------------
\* C7: when a process of session S exits with a code, every open connection
\* subscribed to S at that moment receives exactly one exit event, carrying
\* that code, and every other connection receives nothing.
\* ------------------------------------------------------------------------
ExitDelivered(s, code) ==
    \A c \in Conns :
        sent'[c] = IF c \in rooms[s] /\ sock[c].connected
                   THEN << ExitEv(code) >> ELSE <<>>

C7_ExitStep ==
    /\ \A p \in Procs, code \in ExitCodes :
          RealExit(p, code) => ExitDelivered(procs[p].sid, code)
    /\ \A s \in Sessions :
          (Kill(s) /\ sessions[s] # 0 /\ ~ptyAvailable) => ExitDelivered(s, 0)

C7_ExitBroadcast == [][C7_ExitStep]_vars

\* exit code 1 reached an attached connection while another open connection,
\* not attached to the session, got nothing
C7_Witness ==
    \E c, d \in Conns :
        /\ sent[c] = << ExitEv(1) >>
        /\ sock[d].connected
        /\ sock[d].sessionId \notin {NoSession, sock[c].sessionId}
        /\ sent[d] = <<>>

\* ------------------------------------------------------------------------
\* C8: the registry never holds a process that has exited or was killed: the
\* step in which a registered process exits or is killed clears its
\* session's record, a write only ever goes to a registered running process,
\* and an admitted join that finds no record and whose spawn does not fail
\* spawns exactly one fresh process and registers it.
\* ------------------------------------------------------------------------
C8_NoDeadRecord ==
    \A s \in Sessions :
        sessions[s] # 0 =>
            procs[sessions[s]].st = "running" /\ ~procs[sessions[s]].killed

C8_Step ==
    /\ \A p \in Procs :
          (/\ procs[p].st = "running"
           /\ sessions[procs[p].sid] = p
           /\ \/ procs'[p].st = "exited"
              \/ procs'[p].killed) => sessions'[procs[p].sid] = 0
    /\ \A i \in 1..Len(calls') :
          calls'[i].fn = "write" =>
              /\ procs[calls'[i].p].st = "running"
              /\ ~procs[calls'[i].p].killed
              /\ sessions[procs[calls'[i].p].sid] = calls'[i].p
    /\ \A j \in BagToSet(pending) :
          (JoinAdmitted(j, "ok") /\ sessions[j.s] = 0) =>
              /\ calls' = << SpawnCall(nprocs + 1) >>
              /\ sessions'[j.s] = nprocs + 1
              /\ procs'[nprocs + 1].st = "running"
              /\ procs'[nprocs + 1].outputBuffer = <<>>
              /\ procs[nprocs + 1].st = "unborn"

C8_DeadRecordRemoved == [](C8_NoDeadRecord) /\ [][C8_Step]_vars

\* a session whose first process is gone was just given a second one by a
\* join
C8_Witness ==
    /\ nprocs = 2
    /\ procs[1].st = "exited"
    /\ procs[2].sid = procs[1].sid
    /\ sessions[procs[1].sid] = 2
    /\ calls = << SpawnCall(2) >>

\* ------------------------------------------------------------------------
\* C9: every connection is subscribed to at most one session, the one its
\* sessionId names, so it receives the output and exit events of no other.
\* ------------------------------------------------------------------------
C9_OneMembership ==
    \A c \in Conns :
        sock[c].connected =>
            \A s \in Sessions : c \in rooms[s] => sock[c].sessionId = s

C11_DeniedStep ==
    \A j \in BagToSet(pending), o \in Outcomes :
        (JoinResume(j, o) /\ o # "lookup rejects"
                          /\ memberDB[j.c][j.s] = NoRole) =>
            /\ sent' = SocketEmit(Quiet, j.c, ErrorEv("Access denied"))
            /\ calls' = <<>>
            /\ UNCHANGED << sock, rooms, sessions, procs, nprocs >>

C11_AccessDenied == [][C11_DeniedStep]_vars

\* the owner of s1, attached to s1, was just refused s2 and is still
\* attached to s1
C11_Witness ==
    /\ sent["c1"] = << ErrorEv("Access denied") >>
    /\ sock["c1"].sessionId = "s1"
    /\ sock["c1"].sessionRole = "OWNER"
    /\ "c1" \in rooms["s1"]
    /\ "c1" \notin rooms["s2"]
    /\ sessions["s1"] # 0

\* ------------------------------------------------------------------------
\* C12: the step in which a process of session S exits leaves no connection
\* attached to S: the room of S is empty and no connection names S as its
\* session any more.
\* ------------------------------------------------------------------------
C12_ExitStep ==
    \A p \in Procs :
        (procs[p].st = "running" /\ procs'[p].st = "exited") =>
            /\ rooms'[procs[p].sid] = {}
            /\ \A c \in Conns : sock'[c].sessionId # procs[p].sid

C12_ExitDetaches == [][C12_ExitStep]_vars

\* ------------------------------------------------------------------------
\* C13: the output events an open connection of a session's room receives
\* in a step are the chunks the session's process produced in that step, one
\* event a chunk, in the order produced.
\* ------------------------------------------------------------------------
\* one output event for each chunk of str
EventsOf(str) == [i \in 1..Len(str) |-> OutputEv(<< str[i] >>)]

C13_OrderStep ==
    \A s \in Sessions :
        LET p == sessions[s]
        IN  (p # 0 /\ Delta(p) # <<>>) =>
                \A c \in rooms[s] :
                    sock[c].connected => sent'[c] = EventsOf(Delta(p))

C13_OutputInOrder == [][C13_OrderStep]_vars

\* both connections of a session's room were just sent the four banner
\* chunks in the order the mock pty gave them out
C13_Witness ==
    \E s \in Sessions :
        /\ rooms[s] = Conns
        /\ \A c \in Conns :
              /\ Len(sent[c]) = 4
              /\ \A i \in 1..4 : sent[c][i] = OutputEv(BannerTexts[i])

\* ------------------------------------------------------------------------
\* C14: a leave by a connection whose sessionId names S takes it out of the
\* room of S and clears its sessionId and role, emitting nothing; a leave
\* by a connection with no sessionId changes nothing and emits nothing.  A
\* connection with no sessionId gets the not-in-session error for an input,
\* and a connection that is not in the room of S is sent none of the output
\* of the processes of S.
\* ------------------------------------------------------------------------
C14_LeaveStep ==
    /\ \A c \in Conns :
          Leave(c) =>
              /\ sent' = Quiet
              /\ calls' = <<>>
              /\ UNCHANGED << sessions, procs, nprocs, pending >>
              /\ IF sock[c].sessionId = NoSession
                 THEN UNCHANGED << sock, rooms >>
                 ELSE /\ c \notin rooms'[sock[c].sessionId]
                      /\ sock'[c].sessionId = NoSession
                      /\ sock'[c].sessionRole = NoRole
    /\ \A c \in Conns, d \in Inputs :
          (Input(c, d) /\ sock[c].sessionId = NoSession) =>
              sent'[c] = << ErrorEv("Not in a session") >>
    /\ \A p \in Procs :
          Delta(p) # <<>> =>
              \A c \in Conns \ rooms[procs[p].sid] : OutputsOf(sent'[c]) = <<>>

C14_LeaveDetaches == [][C14_LeaveStep]_vars

\* the operator of s2 joined it, left, and was just refused an input; the
\* process it spawned is still registered
C14_Witness ==
    /\ sessions["s2"] # 0
    /\ rooms["s2"] = {}
    /\ sock["c2"].connected
    /\ sock["c2"].sessionId = NoSession
    /\ sock["c2"].sessionRole = NoRole
    /\ sent["c2"] = << ErrorEv("Not in a session") >>

\* ------------------------------------------------------------------------
\* C15: a leave or a disconnect makes no adapter call and changes neither
\* the registry nor any process or buffer, nor the fields and room
\* memberships of any other connection; a process goes on filling its
\* buffer whoever is in the room of its session.
\* ------------------------------------------------------------------------
C15_FrameStep ==
    /\ \A c \in Conns :
          (Leave(c) \/ Disconnect(c)) =>
              /\ calls' = <<>>
              /\ sent' = Quiet
              /\ UNCHANGED << sessions, procs, nprocs >>
              /\ \A d \in Conns \ {c} :
                    /\ sock'[d] = sock[d]
                    /\ \A s \in Sessions : (d \in rooms'[s]) <=> (d \in rooms[s])
    /\ \A p \in Procs :
          Delta(p) # <<>> =>
              /\ procs'[p].outputBuffer =
                     LastUnits(procs[p].outputBuffer \o Delta(p))
              /\ procs'[p].outputBuffer # procs[p].outputBuffer

C15_LeaveFrame == [][C15_FrameStep]_vars

\* the last connection of a session's room is gone and the session's
\* registered process has just put output into its buffer
C15_Witness ==
    \E s \in Sessions :
        /\ sessions[s] # 0
        /\ rooms[s] = {}
        /\ procs[sessions[s]].produced # <<>>
        /\ procs[sessions[s]].produced[Len(procs[sessions[s]].produced)].p # 0
        /\ procs[sessions[s]].produced[Len(procs[sessions[s]].produced)].k = steps
        /\ procs[sessions[s]].outputBuffer # <<>>

\* ------------------------------------------------------------------------
\* C16: a join by a user with no member row of the session is admitted as
\* VIEWER when the user's global role is ADMIN (sessionId and role set, in
\* the room, joined event with role VIEWER), and is refused with the
\* access-denied error otherwise.
\* ------------------------------------------------------------------------
C16_NonMemberStep ==
    \A j \in BagToSet(pending) :
        (JoinResume(j, "ok") /\ memberDB[j.c][j.s] = NoRole
                             /\ sock[j.c].connected) =>
            IF userDB[j.c] = "ADMIN"
            THEN /\ sock'[j.c].sessionId = j.s
                 /\ sock'[j.c].sessionRole = "VIEWER"
                 /\ j.c \in rooms'[j.s]
                 /\ sent'[j.c] # <<>>
                 /\ sent'[j.c][Len(sent'[j.c])] = JoinedEv(j.s, "VIEWER")
            ELSE /\ sent'[j.c] = << ErrorEv("Access denied") >>
                 /\ UNCHANGED << sock, rooms >>

C16_AdminObserves == [][C16_NonMemberStep]_vars

\* ------------------------------------------------------------------------
\* C17: every join that succeeds sends the joiner exactly two events: one
\* output event carrying the replay buffer as it is (empty when nothing was
\* produced yet), then the joined event with the session id and the role.
\* ------------------------------------------------------------------------
C17_JoinEventsStep ==
    \A j \in BagToSet(pending) :
        (JoinAdmitted(j, "ok") /\ sock[j.c].connected) =>
            sent'[j.c] = << OutputEv(GetBuffer(Cur, j.s)), JoinedEv(j.s, j.role) >>

C17_CatchUpAlways == [][C17_JoinEventsStep]_vars

\* ------------------------------------------------------------------------
\* C18: an input of a connection with no sessionId is answered by the
\* not-in-session error to the sender alone, makes no adapter call and
\* changes no state.
\* ------------------------------------------------------------------------
C18_UnattachedStep ==
    \A c \in Conns, d \in Inputs :
        (Input(c, d) /\ sock[c].sessionId = NoSession) =>
            /\ sent' = SocketEmit(Quiet, c, ErrorEv("Not in a session"))
            /\ calls' = <<>>
            /\ UNCHANGED << sessions, procs, nprocs, sock, rooms, pending >>

C18_NotInSession == [][C18_UnattachedStep]_vars

\* the owner of s1, who is attached to nothing, was just refused an input
\* while s1 has a process and the viewer in its room
C18_Witness ==
    /\ sock["c1"].sessionId = NoSession
    /\ \A s \in Sessions : "c1" \notin rooms[s]
    /\ sent["c1"] = << ErrorEv("Not in a session") >>
    /\ sessions["s1"] # 0
    /\ "c2" \in rooms["s1"]

\* ------------------------------------------------------------------------
\* C19: an input of an OWNER or OPERATOR whose session has no record is
\* answered by an error to the sender alone; the sender keeps its sessionId,
\* role and room, and nothing else changes.
\* ------------------------------------------------------------------------
C19_VanishedStep ==
    \A c \in Conns, d \in Inputs :
        (/\ Input(c, d)
         /\ sock[c].sessionId # NoSession
         /\ sock[c].sessionRole \in {"OWNER", "OPERATOR"}
         /\ sessions[sock[c].sessionId] = 0) =>
            /\ sent' = SocketEmit(Quiet, c, ErrorEv("Failed to send input"))
            /\ calls' = <<>>
            /\ UNCHANGED << sessions, procs, nprocs, sock, rooms, pending >>

C19_WriteFailureReported == [][C19_VanishedStep]_vars

\* the owner of s1, still attached to s1 whose process is gone, was just
\* told that its input failed, while s2 has its process and its operator
C19_Witness ==
    /\ sent["c1"] = << ErrorEv("Failed to send input") >>
    /\ sock["c1"].sessionId = "s1"
    /\ sock["c1"].sessionRole = "OWNER"
    /\ "c1" \in rooms["s1"]
    /\ sessions["s1"] = 0
    /\ \E p \in Procs : procs[p].sid = "s1" /\ procs[p].st = "exited"
    /\ sessions["s2"] # 0
    /\ "c2" \in rooms["s2"]
    /\ sent["c2"] = <<>>

\* ------------------------------------------------------------------------
\* C20: a resize of a connection with no sessionId is answered by the
\* not-in-session error, makes no adapter call and changes no state.
\* ------------------------------------------------------------------------
C20_UnattachedResizeStep ==
    \A c \in Conns :
        (Resize(c) /\ sock[c].sessionId = NoSession) =>
            /\ sent' = SocketEmit(Quiet, c, ErrorEv("Not in a session"))
            /\ calls' = <<>>
            /\ UNCHANGED << sessions, procs, nprocs, sock, rooms, pending >>

C20_ResizeNotInSession == [][C20_UnattachedResizeStep]_vars

\* ------------------------------------------------------------------------
\* C21: a resize of a connection whose sessionId names S makes one resize
\* call at the registered process of S, and none when S has no record; in
\* both cases nothing is emitted to anyone and no state changes.
\* ------------------------------------------------------------------------
C21_ResizeStep ==
    \A c \in Conns :
        LET s == sock[c].sessionId
        IN  (Resize(c) /\ s # NoSession) =>
                /\ calls' = IF sessions[s] # 0
                            THEN << ResizeCall(sessions[s]) >> ELSE <<>>
                /\ sent' = Quiet
                /\ UNCHANGED << sessions, procs, nprocs, sock, rooms, pending >>

C21_ResizeForwarded == [][C21_ResizeStep]_vars

\* both sessions have a process and a resize was just forwarded to the
\* process of s2, whose operator is attached to it
C21_Witness ==
    /\ sessions["s1"] # 0
    /\ sessions["s2"] # 0
    /\ sock["c2"].sessionId = "s2"
    /\ calls = << ResizeCall(sessions["s2"]) >>
    /\ sent = Quiet

\* ------------------------------------------------------------------------
\* C23: a process that has exited stays exited (one exit event a process)
\* and produces no output any more, whether it is a node-pty process or a
\* MockPty with a timer still pending.
\* ------------------------------------------------------------------------
C23_AfterExitStep ==
    \A p \in Procs :
        procs[p].st = "exited" =>
            /\ procs'[p].st = "exited"
            /\ procs'[p].produced = procs[p].produced

C23_NoOutputAfterExit == [][C23_AfterExitStep]_vars

\* ------------------------------------------------------------------------
\* C26: a step that concerns session S1 (a join to S1, an input, resize or
\* leave of a connection whose sessionId is S1, an output, exit or timer of
\* a process of S1, a kill of S1) leaves the record, the processes and the
\* room of every other session as they are, and sends nothing to a
\* connection that is not in the room of S1, the acting connection apart.
\* ------------------------------------------------------------------------
OthersUntouched(s1, actors) ==
    /\ \A s2 \in Sessions \ {s1} :
          /\ sessions'[s2] = sessions[s2]
          /\ rooms'[s2] = rooms[s2]
    /\ \A p \in Procs :
          procs[p].sid \notin {s1, NoProc.sid} => procs'[p] = procs[p]
    /\ \A d \in Conns \ actors : d \notin rooms[s1] => sent'[d] = <<>>

C26_IndependentStep ==
    /\ \A j \in BagToSet(pending), o \in Outcomes :
          JoinResume(j, o) => OthersUntouched(j.s, {j.c})
    /\ \A c \in Conns :
          sock[c].sessionId # NoSession =>
              /\ \A d \in Inputs :
                    Input(c, d) => OthersUntouched(sock[c].sessionId, {c})
              /\ Resize(c) => OthersUntouched(sock[c].sessionId, {c})
              /\ Leave(c) => OthersUntouched(sock[c].sessionId, {c})
    /\ \A p \in Procs :
          /\ \A len \in ChunkLens :
                RealOutput(p, len) => OthersUntouched(procs[p].sid, {})
          /\ \A code \in ExitCodes :
                RealExit(p, code) => OthersUntouched(procs[p].sid, {})
          /\ BannerTimer(p) => OthersUntouched(procs[p].sid, {})
          /\ ResponseTimer(p) => OthersUntouched(procs[p].sid, {})
    /\ \A s \in Sessions : Kill(s) => OthersUntouched(s, {})

C26_SessionsIndependent == [][C26_IndependentStep]_vars

\* each session has its process and its one connection; the process of s1
\* has just produced output, which went to the owner of s1 and not to the
\* operator of s2
C26_Witness ==
    /\ sessions["s1"] # 0
    /\ sessions["s2"] # 0
    /\ rooms["s1"] = {"c1"}
    /\ rooms["s2"] = {"c2"}
    /\ OutputsOf(sent["c1"]) # <<>>
    /\ sent["c2"] = <<>>
    /\ procs[sessions["s2"]].produced = <<>>

\* ------------------------------------------------------------------------
\* C27: the buffer of a record is written by the append of its own process's
\* output and by nothing else: whenever the buffer of a process differs
\* after a step, the process produced output in that step and the buffer is
\* the old one with that output appended and trimmed.  A join, resize, leave
\* or disconnect changes the replay buffer of no session, and an input
\* changes only that of its own session, by the echo its process emits.
\* ------------------------------------------------------------------------
BufferOf(s) == GetBuffer(Cur, s)

BuffersUnchanged == \A s \in Sessions : BufferOf(s)' = BufferOf(s)

C27_WriterStep ==
    /\ \A p \in Procs :
          procs'[p].outputBuffer # procs[p].outputBuffer =>
              /\ procs[p].st # "unborn"
              /\ Delta(p) # <<>>
              /\ procs'[p].outputBuffer =
                     LastUnits(procs[p].outputBuffer \o Delta(p))
    /\ \A s \in Sessions :
          BufferOf(s)' # BufferOf(s) =>
              \/ sessions'[s] = 0
              \/ sessions'[s] = sessions[s] /\ Delta(sessions[s]) # <<>>
    /\ \A j \in BagToSet(pending), o \in Outcomes :
          JoinResume(j, o) => BuffersUnchanged
    /\ \A c \in Conns, s \in Sessions : JoinRequest(c, s) => BuffersUnchanged
    /\ \A c \in Conns :
          /\ Resize(c) => BuffersUnchanged
          /\ Leave(c) => BuffersUnchanged
          /\ Disconnect(c) => BuffersUnchanged
          /\ \A d \in Inputs :
                Input(c, d) =>
                    \A s \in Sessions :
                        BufferOf(s)' # BufferOf(s) =>
                            /\ s = sock[c].sessionId
                            /\ Delta(sessions[s]) = d

C28_KillStep ==
    \A s \in Sessions :
        Kill(s) =>
            /\ sessions'[s] = 0
            /\ sessions[s] = 0 =>
                  /\ calls' = <<>>
                  /\ sent' = Quiet
                  /\ UNCHANGED << sessions, procs, nprocs, sock, rooms,
                                  pending >>

C28_KillIdempotent == [][C28_KillStep]_vars

\* s1 was killed while a connection is still in its room and the killed
\* node-pty process has not reported its exit yet; nothing was emitted or
\* called in the last step
C28_Witness ==
    /\ sessions["s1"] = 0
    /\ \E p \in Procs :
          procs[p].sid = "s1" /\ procs[p].killed /\ procs[p].st = "running"
    /\ \E c \in rooms["s1"] : sock[c].connected
    /\ calls = <<>>
    /\ sent = Quiet

\* ------------------------------------------------------------------------
\* C30: in fallback mode a write makes the process emit the input as one
\* output event, and arms one response timer exactly when the input holds a
\* line terminator; the timer, a later step, emits the one canned response;
\* kill delivers exit code 0 within the kill step.
\* ------------------------------------------------------------------------
HoldsNewline(d) ==
    \E i \in 1..Len(d) : \E j \in 1..Len(d[i].txt) : d[i].txt[j] \in {"\r", "\n"}

C30_MockStep ==
    /\ \A c \in Conns, d \in Inputs :
          LET s == sock[c].sessionId
              p == sessions[s]
          IN  (Input(c, d) /\ ~ptyAvailable /\ calls' # <<>>) =>
                  /\ calls' = << WriteCall(p, d) >>
                  /\ Delta(p) = d
                  /\ \A x \in rooms[s] :
                        sock[x].connected => sent'[x] = << OutputEv(d) >>
                  /\ procs'[p].resp =
                         procs[p].resp + (IF HoldsNewline(d) THEN 1 ELSE 0)
    /\ \A p \in Procs :
          ResponseTimer(p) =>
              /\ Delta(p) = ResponseText
              /\ procs'[p].resp = procs[p].resp - 1
              /\ \A x \in rooms[procs[p].sid] :
                    sock[x].connected => sent'[x] = << OutputEv(ResponseText) >>
    /\ \A s \in Sessions :
          (Kill(s) /\ sessions[s] # 0 /\ ~ptyAvailable) =>
              /\ procs'[sessions[s]].st = "exited"
              /\ \A x \in rooms[s] :
                    sock[x].connected => sent'[x] = << ExitEv(0) >>

C30_MockEchoAndResponse == [][C30_MockStep]_vars

\* the response to "ls\n" has just been emitted, after its echo, and no
\* response is outstanding
C30_Witness ==
    /\ ~ptyAvailable
    /\ \E p \in Procs :
          /\ procs[p].sid = "s1"
          /\ procs[p].resp = 0
          /\ procs[p].produced = Literal(<<"l", "s", "\n">>) \o ResponseText
    /\ \E c \in rooms["s1"] : sent[c] = << OutputEv(ResponseText) >>

\* ------------------------------------------------------------------------
\* C22: the settlement of a session.update, resolved or rejected, emits
\* nothing, calls nothing and leaves registry, processes, sockets, rooms and
\* pending joins as they are; whatever updates are in flight or were
\* rejected, the output a process produces in a step reaches every attached
\* connection in order, its exit reaches every attached connection, and a
\* step that issues or settles an update sends no error event.
\* ------------------------------------------------------------------------
NoErrorEvent ==
    \A c \in Conns : \A i \in 1..Len(sent'[c]) : sent'[c][i].ev # "error"

C22_IsolatedStep ==
    /\ \A w \in BagToSet(inflight), o \in Settlements :
          Settle(w, o) =>
              /\ sent' = Quiet
              /\ calls' = <<>>
              /\ UNCHANGED << sessions, procs, nprocs, sock, rooms, pending >>
    /\ \A p \in Procs :
          /\ Delta(p) # <<>> =>
                \A c \in rooms[procs[p].sid] :
                    sock[c].connected => OutputsOf(sent'[c]) = Delta(p)
          /\ (procs[p].st = "running" /\ procs'[p].st = "exited") =>
                \A c \in rooms[procs[p].sid] :
                    sock[c].connected =>
                        \E code \in ExitCodes : sent'[c] = << ExitEv(code) >>
    /\ inflight' # inflight => NoErrorEvent

C22_PersistenceIsolated == [][C22_IsolatedStep]_vars

\* the process of s1 produced output and exited with a connection attached;
\* the mirror write and the status write were both rejected (none is in
\* flight, and the row holds neither)
C22_Witness ==
    /\ \E p \in Procs :
          /\ procs[p].sid = "s1"
          /\ procs[p].st = "exited"
          /\ procs[p].produced # <<>>
    /\ rooms["s1"] # {}
    /\ inflight = EmptyBag
    /\ stored["s1"].status = "ACTIVE"
    /\ stored["s1"].outputBuffer = <<>>

\* ------------------------------------------------------------------------
\* C24: when redeemInvite has looked its token up, a token without a row is
\* rejected with 'Invalid invite token', a used one with 'Invite already
\* used', an unused expired one with 'Invite expired'; the rejected call
\* ends there, and neither a member row nor the invite changes.  A member
\* row changes only as the last step of a call that passed the checks.
\* ------------------------------------------------------------------------
C24_RejectStep ==
    /\ \A r \in BagToSet(redeems) :
          RedeemFound(r) =>
              LET known == r.t \in DOMAIN invites
                  used == known /\ invites[r.t].usedAt
                  late == known /\ invites[r.t].expired
              IN  /\ ~known => thrown' = "Invalid invite token"
                  /\ used => thrown' = "Invite already used"
                  /\ (late /\ ~used) => thrown' = "Invite expired"
                  /\ (~known \/ used \/ late) =>
                        /\ memberDB' = memberDB
                        /\ invites' = invites
                        /\ redeems' = redeems (-) SetToBag({r})
    /\ memberDB' # memberDB =>
          \E r \in BagToSet(redeems) : r.pc = "create" /\ RedeemCreated(r)

C24_RedeemRejections == [][C24_RejectStep]_vars

\* an invite that expired after it was issued has just been refused; it is
\* still unused and no member row was added
C24_Witness ==
    /\ thrown = "Invite expired"
    /\ invites["fresh"].expired
    /\ ~invites["fresh"].usedAt
    /\ redeems = EmptyBag
    /\ memberDB = InitMembers

\* ------------------------------------------------------------------------
\* C25: an input is handled by the role cached on the connection whatever
\* the member table holds by then, and the cached pair changes only in a
\* join, a leave or a disconnect of its connection.
\*   As claimed: every join whose lookup resolves leaves the connection, if
\* its cached session is the one joined, with the role that lookup read.
\*   As amended: a join that is admitted (the lookup resolves to a role)
\* replaces the cached pair with the session joined and the role read; a
\* join that is refused (no role, or the lookup rejecting) leaves the cached
\* pair as it was.
\* ------------------------------------------------------------------------
C25_CachedRoleStep ==
    /\ \A c \in Conns, d \in Inputs :
          (Input(c, d) /\ sock[c].sessionId # NoSession) =>
              IF sock[c].sessionRole = "VIEWER"
              THEN /\ sent'[c] = << ErrorEv("Viewers cannot send input") >>
                   /\ calls' = <<>>
              ELSE /\ ErrorEv("Viewers cannot send input") \notin
                          { sent'[c][i] : i \in 1..Len(sent'[c]) }
                   /\ sessions[sock[c].sessionId] # 0 =>
                          calls' = << WriteCall(sessions[sock[c].sessionId], d) >>
    /\ \A c \in Conns :
          sock'[c] # sock[c] =>
              \/ \E j \in BagToSet(pending), o \in Outcomes :
                    j.c = c /\ JoinResume(j, o)
              \/ Leave(c)
              \/ Disconnect(c)

C25_EachJoinStep ==
    \A j \in BagToSet(pending), o \in Outcomes :
        (JoinResume(j, o) /\ o # "lookup rejects") =>
            (sock'[j.c].sessionId = j.s => sock'[j.c].sessionRole = j.role)

C25_AdmittedJoinStep ==
    \A j \in BagToSet(pending), o \in Outcomes :
        JoinResume(j, o) =>
            IF o # "lookup rejects" /\ j.role # NoRole
            THEN sock'[j.c] = [sock[j.c] EXCEPT !.sessionId = j.s,
                                                !.sessionRole = j.role]
            ELSE sock'[j.c] = sock[j.c]

C25_RevalidatedOnEveryJoin ==
    [][C25_CachedRoleStep /\ C25_EachJoinStep]_vars

C25_RevalidatedOnAdmittedJoin ==
    [][C25_CachedRoleStep /\ C25_AdmittedJoinStep]_vars

\* the owner of s1 has no member row any more, is still attached with the
\* cached role OWNER, and its input has just been written to the process
C25_Witness ==
    /\ memberDB["c1"]["s1"] = NoRole
    /\ sock["c1"].sessionId = "s1"
    /\ sock["c1"].sessionRole = "OWNER"
    /\ sessions["s1"] # 0
    /\ \E d \in Inputs : calls = << WriteCall(sessions["s1"], d) >>

\* ------------------------------------------------------------------------
\* C29: spawn for a session that has a record throws 'Session already
\* exists', creates no pty and leaves the registry, every process (its
\* buffer included) and everything else as it is.
\* ------------------------------------------------------------------------
C29_SpawnStep ==
    \A s \in Sessions, o \in {"ok", "spawn throws"} :
        (Spawn(s, o) /\ sessions[s] # 0) =>
            /\ thrown' = "Session already exists"
            /\ calls' = <<>>
            /\ nprocs' = nprocs
            /\ sessions' = sessions
            /\ procs' = procs
            /\ sent' = Quiet
            /\ UNCHANGED << sock, rooms, pending >>

C29_SpawnAlreadyExists == [][C29_SpawnStep]_vars

\* a spawn for s1 has just been refused while the process of s1, which has
\* produced output, is registered and running
C29_Witness ==
    /\ thrown = "Session already exists"
    /\ sessions["s1"] # 0
    /\ sessions["s2"] = 0
    /\ procs[sessions["s1"]].st = "running"
    /\ procs[sessions["s1"]].outputBuffer # <<>>
    /\ nprocs = 1

\* ------------------------------------------------------------------------
\* C31: the exit event of a process whose session has another process
\* registered by now (it was killed, its record dropped, and a process was
\* spawned for the session since) leaves the registry as it is and
\* broadcasts no exit; and a running process that was not killed is the
\* registered process of its session.
\* ------------------------------------------------------------------------
C31_LateExitStep ==
    /\ \A p \in Procs, code \in ExitCodes :
          (RealExit(p, code) /\ sessions[procs[p].sid] \notin {0, p}) =>
              /\ sessions' = sessions
              /\ \A c \in Conns :
                    \A i \in 1..Len(sent'[c]) : sent'[c][i].ev # "session:exit"
    /\ \A p \in Procs :
          (procs'[p].st = "running" /\ ~procs'[p].killed) =>
              sessions'[procs'[p].sid] = p

C31_ExitRemovesOwnRecord == [][C31_LateExitStep]_vars

\* ------------------------------------------------------------------------
\* C33: a join that is answered with an error event leaves the connection's
\* sessionId, its role and every room as they were before the join.
\* ------------------------------------------------------------------------
C33_FailedJoinStep ==
    \A j \in BagToSet(pending), o \in Outcomes :
        (/\ JoinResume(j, o)
         /\ \E i \in 1..Len(sent'[j.c]) : sent'[j.c][i].ev = "error") =>
            /\ sock'[j.c] = sock[j.c]
            /\ rooms' = rooms

C33_JoinAllOrNothing == [][C33_FailedJoinStep]_vars

\* ------------------------------------------------------------------------
\* C36: a process spawned for a session starts with an empty buffer; while
\* a session has a registered process, output of an earlier process of the
\* same session changes neither that buffer nor is it sent to anyone, and
\* the catch-up payload of a join is the buffer of the registered process.
\* ------------------------------------------------------------------------
C36_LiveOutputStep ==
    /\ \A p \in Procs :
          (procs[p].st = "unborn" /\ procs'[p].st # "unborn") =>
              procs'[p].outputBuffer = <<>>
    /\ \A p \in Procs :
          LET q == IF procs[p].st = "unborn" THEN 0 ELSE sessions[procs[p].sid]
          IN  (Delta(p) # <<>> /\ q \notin {0, p}) =>
                  /\ procs'[q].outputBuffer = procs[q].outputBuffer
                  /\ \A c \in Conns : OutputsOf(sent'[c]) = <<>>
    /\ \A j \in BagToSet(pending), o \in Outcomes :
          JoinResume(j, o) =>
              \/ OutputsOf(sent'[j.c]) = <<>>
              \/ /\ sessions[j.s] # 0
                 /\ OutputsOf(sent'[j.c]) = procs[sessions[j.s]].outputBuffer

C36_OnlyLiveProcessOutput == [][C36_LiveOutputStep]_vars

\* ------------------------------------------------------------------------
\* C32: whatever the order in which the lookups of a connection's joins
\* complete, its cached session and role are set together by one join: the
\* cached role is the role stored for the connection's user on the cached
\* session; a pending join carries the role of the session it asked for;
\* and an input is written only to the process of the cached session, and
\* only when the user's role on that session is OWNER or OPERATOR.
\* ------------------------------------------------------------------------
C32_PairOfOneJoin ==
    /\ \A c \in Conns :
          IF sock[c].sessionId = NoSession
          THEN sock[c].sessionRole = NoRole
          ELSE /\ sock[c].sessionRole = memberDB[c][sock[c].sessionId]
               /\ sock[c].sessionRole # NoRole
    /\ \A j \in BagToSet(pending) : j.role = memberDB[j.c][j.s]

C32_InputStep ==
    \A c \in Conns, d \in Inputs :
        (Input(c, d) /\ calls' # <<>>) =>
            LET s == sock[c].sessionId
            IN  /\ s # NoSession
                /\ calls' = << WriteCall(sessions[s], d) >>
                /\ procs[sessions[s]].sid = s
                /\ memberDB[c][s] \in {"OWNER", "OPERATOR"}

C32_CachedPairConsistent == [](C32_PairOfOneJoin) /\ [][C32_InputStep]_vars

\* c2 has joined s2, where it is OPERATOR, and s1, where it is VIEWER; its
\* cached pair is (s1, VIEWER) and its input has just been refused, though
\* the process of s2 is running and c2 is in its room
C32_Witness ==
    /\ sock["c2"].sessionId = "s1"
    /\ sock["c2"].sessionRole = "VIEWER"
    /\ "c2" \in rooms["s1"] \cap rooms["s2"]
    /\ sessions["s2"] # 0
    /\ sent["c2"] = << ErrorEv("Viewers cannot send input") >>
    /\ calls = <<>>

\* ------------------------------------------------------------------------
\* C34: the handler of a join whose lookup has completed sends the joining
\* connection, if it is still open, exactly one event that is a joined or
\* an error event, and sends no other connection such an event.
\* ------------------------------------------------------------------------
Answers(evs) ==
    Cardinality({ i \in 1..Len(evs) : evs[i].ev \in {"session:joined", "error"} })

C34_AnswerStep ==
    \A j \in BagToSet(pending), o \in Outcomes :
        JoinResume(j, o) =>
            /\ sock[j.c].connected => Answers(sent'[j.c]) = 1
            /\ \A c \in Conns \ {j.c} : Answers(sent'[c]) = 0

C34_JoinAnsweredOnce == [][C34_AnswerStep]_vars

\* the spawn of a join threw before any process existed: the joiner, put in
\* the room, was sent the one error event
C34_Witness ==
    /\ nprocs = 0
    /\ "c1" \in rooms["s1"]
    /\ sent["c1"] = << ErrorEv("Failed to join session") >>

\* ------------------------------------------------------------------------
\* C35: a join to a session by a connection that is in its room already,
\* the session having a process, spawns nothing and leaves registry,
\* processes and rooms as they are; output and exit of the registered
\* process reach each attached connection once, however often it joined.
\* ------------------------------------------------------------------------
C35_RejoinStep ==
    /\ \A j \in BagToSet(pending), o \in Outcomes :
          (JoinResume(j, o) /\ j.c \in rooms[j.s] /\ sessions[j.s] # 0) =>
              /\ calls' = <<>>
              /\ rooms' = rooms
              /\ UNCHANGED << sessions, procs, nprocs >>
    /\ \A s \in Sessions :
          LET p == sessions[s]
          IN  p # 0 =>
                  \A c \in rooms[s] :
                      sock[c].connected =>
                          /\ Delta(p) # <<>> =>
                                Len(sent'[c]) = Len(Delta(p))
                          /\ procs'[p].st = "exited" =>
                                \E code \in ExitCodes : sent'[c] = << ExitEv(code) >>

C35_RejoinIdempotent == [][C35_RejoinStep]_vars

\* c1 spawned the process of s1 by its join, the process produced output,
\* and c1 has just joined s1 a second time: nothing was spawned, it was sent
\* the catch-up and the joined event, and it is the one member of the room
C35_Witness ==
    /\ steps = 5
    /\ nprocs = 1
    /\ sessions["s1"] = 1
    /\ rooms["s1"] = {"c1"}
    /\ rooms["s2"] = {}
    /\ calls = <<>>
    /\ sent["c1"] = << OutputEv(procs[1].outputBuffer), JoinedEv("s1", "OWNER") >>

\* ------------------------------------------------------------------------
\* C37: a session whose row says TERMINATED has no running registered
\* process, unless an update that takes the row out of TERMINATED is on its
\* way.
\* ------------------------------------------------------------------------
C37_TerminatedMeansNoProcess ==
    \A s \in Sessions :
        (/\ stored[s].status = "TERMINATED"
         /\ sessions[s] # 0
         /\ procs[sessions[s]].st = "running") =>
            \E w \in BagToSet(inflight) :
                w.s = s /\ w.fn = "updateStatus" /\ w.status # "TERMINATED"

\* ------------------------------------------------------------------------
\* C38: when every mirror write issued for a session has completed, all of
\* them successfully, the outputBuffer of the session's row is the buffer of
\* the session's registered process.
\* ------------------------------------------------------------------------
MirrorsInFlight(s) ==
    { w \in BagToSet(inflight) : w.s = s /\ w.fn = "updateOutputBuffer" }

C38_MirrorCatchesUp ==
    \A s \in Sessions :
        (/\ sessions[s] # 0
         /\ procs[sessions[s]].produced # <<>>
         /\ \A p \in Procs : procs[p].sid = s => p = sessions[s]
         /\ MirrorsInFlight(s) = {}) =>
            stored[s].outputBuffer = procs[sessions[s]].outputBuffer

\* ------------------------------------------------------------------------
\* C39: redeemInvite calls on one token, interleaved in any way, create at
\* most one member row (here: of s2, which starts without members and which
\* every invite is for).
\* ------------------------------------------------------------------------
C39_SingleUse ==
    Cardinality({ u \in Conns : memberDB[u]["s2"] # NoRole }) <= 1
====
